---- MODULE Spec2Model ----
(***************************************************************************)
(* Model of the RSVP intake service (server/main.go): the sliding-window   *)
(* rate limiter, the three file-backed stores (RSVP log, Telegram          *)
(* identities, sent-reminder set), the HTTP/webhook handlers that use      *)
(* them, the cancellation resolver and the firing poll of the reminder     *)
(* loop.                                                                   *)
(*                                                                         *)
(* Strings are sequences of one-character strings, so that trimming,       *)
(* lower-casing and digit stripping are computed character by character.   *)
(***************************************************************************)
EXTENDS Integers, Sequences, FiniteSets, TLC

VARIABLES
    clock,      \* time.Now(), in ticks
    counts,     \* rsvpLimiter.counts: key -> admitted timestamps kept
    admitted,   \* history: key -> every timestamp allow() ever admitted
    tgFile,     \* tg_users.json, the file behind tgUserStore
    rsvpFile,   \* rsvps.json, the file behind rsvpStore
    sentFile,   \* reminder_sent.json, the file behind reminderSentStore
    outbox,     \* collaborator calls made by the last operation, in order
    reminded,   \* history: reminder emails dispatched, per recipient address
    polls,      \* number of firing polls run so far
    steps,      \* number of handler invocations so far
    faults,     \* number of handler invocations and polls that met a failing write
    ret,        \* the last operation: what it was called with and returned
    wake,       \* runReminderLoop: the time at which the loop polls next
    broadcasts, \* history: chat ids the channel reminder was sent to
    mu,         \* rsvpStore.mu: the goroutine holding it, 0 when unlocked
    proc        \* goroutines running an operation of rsvpStore: op, pc, local

vars == <<clock, counts, admitted, tgFile, rsvpFile, sentFile, outbox,
          reminded, polls, steps, faults, ret, wake, broadcasts, mu, proc>>

(***************************************************************************)
(* Bounds of the model.                                                    *)
(***************************************************************************)
TicksPerMinute == 2     \* resolution of the clock: ticks in rateLimitWindow
MaxClock == 3           \* the limiter is explored up to this time
MaxSteps == 3           \* handler invocations explored in Spec
MaxFaults == 1          \* of them, invocations that meet a failing file write
MaxPolls == 2           \* firing polls explored in SpecReminder
MaxEntries == 2         \* RSVP entries on file when SpecReminder starts
DaysAround == 1         \* days explored before and after the reminder day
MaxProcs == 3           \* goroutines running operations of rsvpStore at once
NearTicks == 4          \* the loop starts within this many ticks of 00:00 or 09:00
MaxLate == 1            \* ticks by which time.Sleep may overrun its duration
MaxBusy == 1            \* ticks a pass of the loop may take before it sleeps

(***************************************************************************)
(* Program constants.                                                      *)
(***************************************************************************)
rateLimitNum == 5
MaxNameLen == 200
MinPhoneDigits == 10
MaxEmailLen == 254
rateLimitWindow == TicksPerMinute

(***************************************************************************)
(* Sequence helpers.                                                       *)
(***************************************************************************)
Range(s) == {s[i] : i \in 1..Len(s)}

Last(s) == s[Len(s)]

Min(S) == CHOOSE x \in S : \A y \in S : x <= y

(***************************************************************************)
(* rsvpLimiter                                                             *)
(***************************************************************************)
Keys == {"ip1", "ip2"}

\* the loop of allow: timestamps t with t.After(cut)
keptMutNotBefore(times, now) ==
    SelectSeq(times, LAMBDA t : t >= now - rateLimitWindow)

kept(times, now) == SelectSeq(times, LAMBDA t : t > now - rateLimitWindow)

\* the decision of allow, from the pruned timestamps
admitsMutOffByOne(k) == Len(k) <= rateLimitNum

admits(k) == ~(Len(k) >= rateLimitNum)

\* allow that records now also when it rejects
allowMutCountsRejected(c, ip, now) ==
    LET k == kept(c[ip], now) IN
    [ok |-> admits(k), counts |-> [c EXCEPT ![ip] = Append(k, now)]]

\* rsvpLimiter.allow(ip) at time now: [ok, counts]
allow(c, ip, now) ==
    LET k == kept(c[ip], now) IN
    IF admits(k)
    THEN [ok |-> TRUE, counts |-> [c EXCEPT ![ip] = Append(k, now)]]
    ELSE [ok |-> FALSE, counts |-> c]

(***************************************************************************)
(* Strings.                                                                *)
(***************************************************************************)
Digits == {"0", "1", "2", "3", "4", "5", "6", "7", "8", "9"}

Spaces == {" ", "\t", "\n", "\r"}

Upper == <<"A", "B", "C", "D", "E", "F", "G", "H", "I", "J", "K", "L", "M",
           "N", "O", "P", "Q", "R", "S", "T", "U", "V", "W", "X", "Y", "Z">>

Lower == <<"a", "b", "c", "d", "e", "f", "g", "h", "i", "j", "k", "l", "m",
           "n", "o", "p", "q", "r", "s", "t", "u", "v", "w", "x", "y", "z">>

\* strings.ToLower
lowerOf == [c \in Range(Upper) |-> Lower[CHOOSE j \in 1..Len(Upper) : Upper[j] = c]]

ToLower(s) ==
    [i \in 1..Len(s) |-> IF s[i] \in DOMAIN lowerOf THEN lowerOf[s[i]] ELSE s[i]]

\* strings.TrimSpace: leading and trailing white space removed
RECURSIVE TrimLeft(_)
TrimLeft(s) == IF s # <<>> /\ Head(s) \in Spaces THEN TrimLeft(Tail(s)) ELSE s

RECURSIVE TrimRight(_)
TrimRight(s) ==
    IF s # <<>> /\ s[Len(s)] \in Spaces
    THEN TrimRight(SubSeq(s, 1, Len(s) - 1)) ELSE s

TrimSpace(s) == TrimRight(TrimLeft(s))

\* strings.HasPrefix and strings.TrimPrefix
HasPrefix(s, p) == Len(s) >= Len(p) /\ SubSeq(s, 1, Len(p)) = p

TrimPrefix(s, p) == IF HasPrefix(s, p) THEN SubSeq(s, Len(p) + 1, Len(s)) ELSE s

\* strings.Contains(s, "@")
ContainsAt(s) == \E i \in 1..Len(s) : s[i] = "@"

\* normalizePhone: the digits of phone, in order
normalizePhone(phone) == SelectSeq(phone, LAMBDA r : r \in Digits)

(***************************************************************************)
(* Files.  A backing file is missing, holds a JSON array that decodes to   *)
(* data, or is present but unreadable/undecodable ("bad").                 *)
(***************************************************************************)
Missing == [kind |-> "missing", data |-> <<>>]

Bad == [kind |-> "bad", data |-> <<>>]

\* os.ReadFile followed by json.Unmarshal with both errors ignored: the
\* slice stays nil unless the file decodes
decoded(f) == IF f.kind = "ok" THEN f.data ELSE <<>>

\* os.ReadFile/json.Unmarshal report an error other than "not exist"
readErr(f) == f.kind = "bad"

\* os.WriteFile of the marshalled list.  It succeeds, or fails before the
\* file is opened (file untouched), or fails after truncating it.
WriteOutcomes == {"ok", "denied", "torn"}

WriteFile(f, list, w) ==
    CASE w = "ok" -> [kind |-> "ok", data |-> list]
      [] w = "denied" -> f
      [] OTHER -> Bad

(***************************************************************************)
(* tgUserStore                                                             *)
(***************************************************************************)
tgUser(chatID, phone, name) == [ChatID |-> chatID, Phone |-> phone, Name |-> name]

NoUser == tgUser(0, <<>>, <<>>)

\* tgUserStore.load: [err, users]
tgUserStore_load(f) == [err |-> readErr(f), users |-> decoded(f)]

\* tgUserStore.list
tgUserStore_list(f) == tgUserStore_load(f)

\* tgUserStore.get(phone): [found, user], the first record whose
\* normalized phone equals the normalized argument
tgUserStore_get(f, phone) ==
    LET l == tgUserStore_load(f)
        hits == {i \in 1..Len(l.users) :
                    normalizePhone(l.users[i].Phone) = normalizePhone(phone)}
    IN  IF l.err \/ hits = {}
        THEN [found |-> FALSE, user |-> NoUser]
        ELSE [found |-> TRUE, user |-> l.users[Min(hits)]]

\* tgUserStore.save(user): [err, file].  The scan compares the stored Phone
\* field itself with the normalized phone of the argument.
tgUserStore_save(f, user, w) ==
    LET l == tgUserStore_load(f)
        phoneNorm == normalizePhone(user.Phone)
        hits == {i \in 1..Len(l.users) : l.users[i].Phone = phoneNorm}
        users == IF hits = {} THEN Append(l.users, user)
                 ELSE [l.users EXCEPT ![Min(hits)] = user]
    IN  IF l.err THEN [err |-> TRUE, file |-> f]
        ELSE [err |-> w # "ok", file |-> WriteFile(f, users, w)]

(***************************************************************************)
(* rsvpStore                                                               *)
(***************************************************************************)
\* *int64: nil is <<>>, a pointer to c is <<c>>
Nil == <<>>

Ptr(c) == <<c>>

storedRSVP(name, phone, email, chat, at) ==
    [Name |-> name, Phone |-> phone, Email |-> email,
     TelegramChatID |-> chat, At |-> at]

\* rsvpStore.append(entry): [err, file]
\* append that writes the new entry alone
rsvpStore_appendMutOverwrite(f, entry, w) ==
    [err |-> w # "ok", file |-> WriteFile(f, <<entry>>, w)]

rsvpStore_appendMutPrepend(f, entry, w) ==
    [err |-> w # "ok", file |-> WriteFile(f, <<entry>> \o decoded(f), w)]

rsvpStore_append(f, entry, w) ==
    LET list == Append(decoded(f), entry) IN
    [err |-> w # "ok", file |-> WriteFile(f, list, w)]

\* rsvpStore.list: [err, list]
rsvpStore_list(f) == [err |-> readErr(f), list |-> decoded(f)]

(***************************************************************************)
(* reminderSentStore                                                       *)
(***************************************************************************)
\* the key of an address in the sent-set
emailKey(e) == TrimSpace(ToLower(e))

\* reminderSentStore.list: [err, set]
reminderSentStore_list(f) ==
    [err |-> readErr(f), set |-> {emailKey(e) : e \in Range(decoded(f))}]

\* the second loop of add without seen[e] = true
RECURSIVE addDistinctMutNoSeen(_, _, _)
addDistinctMutNoSeen(list, seen, emails) ==
    IF emails = <<>> THEN list
    ELSE LET e == emailKey(Head(emails)) IN
         IF e # <<>> /\ e \notin seen
         THEN addDistinctMutNoSeen(Append(list, e), seen, Tail(emails))
         ELSE addDistinctMutNoSeen(list, seen, Tail(emails))

\* the second loop of add: append each new non-empty key once
RECURSIVE addDistinct(_, _, _)
addDistinct(list, seen, emails) ==
    IF emails = <<>> THEN list
    ELSE LET e == emailKey(Head(emails)) IN
         IF e # <<>> /\ e \notin seen
         THEN addDistinct(Append(list, e), seen \cup {e}, Tail(emails))
         ELSE addDistinct(list, seen, Tail(emails))

\* reminderSentStore.add(emails): [err, file]
reminderSentStore_add(f, emails, w) ==
    LET list == decoded(f)
        seen == {emailKey(e) : e \in Range(list)}
    IN  [err |-> w # "ok",
         file |-> WriteFile(f, addDistinct(list, seen, emails), w)]

(***************************************************************************)
(* cancelRSVPByChatID: [err, wrote, file], file being rsvps.json afterwards *)
(***************************************************************************)
cancelRSVPByChatIDMutAlwaysWrites(rsvp, tg, chatID, w) ==
    LET l == tgUserStore_list(tg)
        hits == {i \in 1..Len(l.users) : l.users[i].ChatID = chatID}
        userPhone == IF hits = {} THEN <<>> ELSE l.users[Min(hits)].Phone
        newList == SelectSeq(decoded(rsvp),
                     LAMBDA r : normalizePhone(r.Phone) # normalizePhone(userPhone))
    IN  IF l.err THEN [err |-> TRUE, wrote |-> FALSE, file |-> rsvp]
        ELSE [err |-> w # "ok", wrote |-> TRUE, file |-> WriteFile(rsvp, newList, w)]

cancelRSVPByChatID(rsvp, tg, chatID, w) ==
    LET l == tgUserStore_list(tg)
        hits == {i \in 1..Len(l.users) : l.users[i].ChatID = chatID}
        userPhone == IF hits = {} THEN <<>> ELSE l.users[Min(hits)].Phone
        newList == SelectSeq(decoded(rsvp),
                     LAMBDA r : normalizePhone(r.Phone) # normalizePhone(userPhone))
    IN  IF l.err THEN [err |-> TRUE, wrote |-> FALSE, file |-> rsvp]
        ELSE IF userPhone = <<>>
        THEN [err |-> FALSE, wrote |-> FALSE, file |-> rsvp]
        ELSE [err |-> w # "ok", wrote |-> TRUE, file |-> WriteFile(rsvp, newList, w)]

NoRet == [op |-> "none"]

\* the reminder loop is not running
NoWake == [day |-> 0, hour |-> 0]

\* no goroutine is inside an operation of rsvpStore
NoProcs == <<>>

(***************************************************************************)
(* Collaborator calls (resend client, Telegram client), as recorded in     *)
(* outbox in the order the code makes them.                                *)
(***************************************************************************)
Email(to, what) == [kind |-> "email", to |-> to, what |-> what]

Telegram(chatID, what) == [kind |-> "tg", to |-> chatID, what |-> what]

\* RSVP_TO_EMAIL, the organizer's address
toEmail == <<"o", "@", "w">>

\* one more handler invocation (taken while steps < MaxSteps); failed tells
\* whether a file write it made failed
Invoked(failed) ==
    /\ steps' = steps + 1
    /\ faults' = IF failed THEN faults + 1 ELSE faults
    /\ faults' <= MaxFaults

(***************************************************************************)
(* POST /api/rsvp, with the Telegram bot configured.  body is the decoded  *)
(* RSVPRequest, ip the limiter key, orgOk the outcome of the organizer     *)
(* email, wSave and wAppend the outcomes of the two file writes.           *)
(***************************************************************************)
RSVPRequest(name, phone, email, chat) ==
    [Name |-> name, Phone |-> phone, Email |-> email, TelegramChatID |-> chat]

\* the validation without the test of the phone digits
invalidRSVPMutNoPhone(name, phone, email) ==
    \/ name = <<>>
    \/ Len(name) > MaxNameLen
    \/ (email # <<>> /\ (Len(email) > MaxEmailLen \/ ~ContainsAt(email)))

invalidRSVP(name, phone, email) ==
    \/ name = <<>>
    \/ Len(name) > MaxNameLen
    \/ Len(normalizePhone(phone)) < MinPhoneDigits
    \/ (email # <<>> /\ (Len(email) > MaxEmailLen \/ ~ContainsAt(email)))

HandleRSVP(body, ip, orgOk, wSave, wAppend) ==
    LET name == TrimSpace(body.Name)
        phone == TrimSpace(body.Phone)
        email == TrimSpace(body.Email)
        lim == allow(counts, ip, clock)
        withChat == body.TelegramChatID # Nil
        user == tgUser(IF withChat THEN body.TelegramChatID[1] ELSE 0, phone, name)
        sv == IF withChat THEN tgUserStore_save(tgFile, user, wSave)
              ELSE [err |-> FALSE, file |-> tgFile]
        g == tgUserStore_get(sv.file, phone)
        entry == storedRSVP(name, phone, email, body.TelegramChatID, clock)
        ap == rsvpStore_append(rsvpFile, entry, wAppend)
        notice == <<Email(toEmail, "notice")>>
        thanks == IF email # <<>> THEN <<Email(email, "thanks")>> ELSE <<>>
        confirm == IF g.found THEN <<Telegram(g.user.ChatID, "confirm")>> ELSE <<>>
        rejected(status) == [op |-> "rsvp", status |-> status, body |-> body]
    IN
    /\ steps < MaxSteps
    /\ UNCHANGED <<clock, sentFile, reminded, polls, wake, broadcasts, mu, proc>>
    /\ IF invalidRSVP(name, phone, email)
       THEN /\ Invoked(FALSE)
            /\ ret' = rejected(400)
            /\ outbox' = <<>>
            /\ UNCHANGED <<counts, admitted, tgFile, rsvpFile>>
       ELSE /\ counts' = lim.counts
            /\ admitted' = IF lim.ok THEN [admitted EXCEPT ![ip] = Append(@, clock)]
                           ELSE admitted
            /\ IF ~lim.ok
               THEN /\ Invoked(FALSE)
                    /\ ret' = rejected(429)
                    /\ outbox' = <<>>
                    /\ UNCHANGED <<tgFile, rsvpFile>>
               ELSE IF ~orgOk
               THEN /\ Invoked(FALSE)
                    /\ ret' = rejected(500)
                    /\ outbox' = notice
                    /\ UNCHANGED <<tgFile, rsvpFile>>
               ELSE /\ Invoked((withChat /\ wSave # "ok") \/ wAppend # "ok")
                    /\ ret' = [op |-> "rsvp", status |-> 200, body |-> body,
                               saved |-> withChat, saveErr |-> sv.err, user |-> user,
                               found |-> g.found, got |-> g.user,
                               appendErr |-> ap.err, entry |-> entry]
                    /\ outbox' = notice \o thanks \o confirm
                    /\ tgFile' = sv.file
                    /\ rsvpFile' = ap.file

(***************************************************************************)
(* POST /api/tg/webhook.  update is a callback query (a pressed button)    *)
(* or a message; w is the outcome of the file write the branch makes.      *)
(***************************************************************************)
Callback(chatID, data) == [kind |-> "callback", chat |-> chatID, data |-> data]

Message(chatID, userName, text) ==
    [kind |-> "message", chat |-> chatID, userName |-> userName, text |-> text]

cmdStart == <<"/", "s", "t", "a", "r", "t">>

cmdPhone == <<"/", "p", "h", "o", "n", "e", " ">>

handleTelegramWebhook(update, w) ==
    LET c == cancelRSVPByChatID(rsvpFile, tgFile, update.chat, w)
        phone == TrimSpace(TrimPrefix(update.text, cmdPhone))
        user == IF HasPrefix(update.text, cmdPhone)
                THEN tgUser(update.chat, phone, update.userName)
                ELSE tgUser(update.chat, update.text, update.userName)
        sv == tgUserStore_save(tgFile, user, w)
        save == /\ Invoked(w # "ok")
                /\ tgFile' = sv.file
                /\ ret' = [op |-> "phone", saved |-> TRUE, saveErr |-> sv.err,
                           user |-> user]
                /\ outbox' = <<Telegram(update.chat, "saved")>>
                /\ UNCHANGED rsvpFile
        reply(msgs) == /\ Invoked(FALSE)
                       /\ ret' = [op |-> "webhook"]
                       /\ outbox' = msgs
                       /\ UNCHANGED <<tgFile, rsvpFile>>
    IN
    /\ steps < MaxSteps
    /\ UNCHANGED <<clock, counts, admitted, sentFile, reminded, polls,
                   wake, broadcasts, mu, proc>>
    /\ IF update.kind = "callback"
       THEN IF update.data = "cancel_rsvp"
            THEN /\ Invoked(c.wrote /\ w # "ok")
                 /\ rsvpFile' = c.file
                 /\ outbox' = <<Telegram(update.chat, "answerCallback"),
                                Telegram(update.chat, "cancelled")>>
                 /\ ret' = [op |-> "cancel", chat |-> update.chat, err |-> c.err,
                            wrote |-> c.wrote]
                 /\ UNCHANGED tgFile
            ELSE reply(<<>>)
       ELSE IF update.text = cmdStart THEN reply(<<Telegram(update.chat, "webapp")>>)
       ELSE IF HasPrefix(update.text, cmdPhone)
       THEN IF phone # <<>> THEN save
            ELSE reply(<<Telegram(update.chat, "usage")>>)
       ELSE IF Len(normalizePhone(update.text)) >= MinPhoneDigits THEN save
       ELSE reply(<<>>)

(***************************************************************************)
(* POST /api/tg/init, sent by the web page when opened inside Telegram.    *)
(***************************************************************************)
InitRequest(chatID, firstName, username, phone) ==
    [ChatID |-> chatID, FirstName |-> firstName, Username |-> username,
     Phone |-> phone]

handleTelegramInit(req, w) ==
    LET name == IF req.Username # <<>> THEN <<"@">> \o req.Username
                ELSE IF req.FirstName # <<>> THEN req.FirstName
                ELSE <<"T", "e", "l", "e", "g", "r", "a", "m", " ",
                       "U", "s", "e", "r">>
        user == tgUser(req.ChatID, req.Phone, name)
        sv == tgUserStore_save(tgFile, user, w)
    IN
    /\ steps < MaxSteps
    /\ outbox' = <<>>
    /\ UNCHANGED <<clock, counts, admitted, rsvpFile, sentFile, reminded, polls,
                   wake, broadcasts, mu, proc>>
    /\ IF req.ChatID = 0
       THEN /\ Invoked(FALSE)
            /\ ret' = [op |-> "init", saved |-> FALSE, saveErr |-> FALSE, user |-> user]
            /\ UNCHANGED tgFile
       ELSE /\ Invoked(w # "ok")
            /\ tgFile' = sv.file
            /\ ret' = [op |-> "init", saved |-> TRUE, saveErr |-> sv.err, user |-> user]

(***************************************************************************)
(* Local time.  A time is [day, hour]: the day of the year Year, and 8 for *)
(* a time of day before 09:00 or 9 for 09:00 or later.                     *)
(***************************************************************************)
Year == 2026

\* days of the months of Year, which is not a leap year
DaysIn == <<31, 28, 31, 30, 31, 30, 31, 31, 30, 31, 30, 31>>

RECURSIVE DaysBefore(_)
DaysBefore(m) == IF m = 1 THEN 0 ELSE DaysBefore(m - 1) + DaysIn[m - 1]

\* Time.YearDay of a date of Year
YearDay(date) == DaysBefore(date.m) + date.d

\* Time.Date: year, month and day of the n-th day of Year
Date(n) ==
    LET m == CHOOSE k \in 1..12 : DaysBefore(k) < n /\ n <= DaysBefore(k) + DaysIn[k]
    IN  [y |-> Year, m |-> m, d |-> n - DaysBefore(m)]

\* Time.AddDate(0, 0, days), which normalises the day of the month
AddDate(date, days) == Date(YearDay(date) + days)

\* WEDDING_DATE=2026-03-05
weddingDate == [y |-> Year, m |-> 3, d |-> 5]

reminderDay == AddDate(weddingDate, 0 - 10)

\* y == reminderYear && m == reminderMonth, without the test of the day
isReminderDayMutMonthOnly(now) ==
    Date(now.day).y = reminderDay.y /\ Date(now.day).m = reminderDay.m

\* y == reminderYear && m == reminderMonth && d == reminderDayNum
isReminderDay(now) == Date(now.day) = reminderDay

CheckHour == 9

\* sleepUntilNextCheck that always waits for tomorrow's check
sleepUntilNextCheckMutTomorrow(now) == [day |-> now.day + 1, hour |-> CheckHour]

\* sleepUntilNextCheck: the time at which the loop wakes up, 09:00 today
\* when now is before it, else 09:00 tomorrow
sleepUntilNextCheck(now) ==
    IF now.hour >= CheckHour
    THEN [day |-> now.day + 1, hour |-> CheckHour]
    ELSE [day |-> now.day, hour |-> CheckHour]

(***************************************************************************)
(* runReminderLoop: one pass of the loop at time wake.  FiringPoll is the  *)
(* branch taken when today's date is the wedding date minus 10 days,       *)
(* IdlePoll the pass of any other day.  sendOk[i] is the outcome of the    *)
(* i-th reminder email, w of the write of sent.add.                        *)
(***************************************************************************)
Reminder(to, ok) == [kind |-> "email", to |-> to, what |-> "reminder", ok |-> ok]

SentAdd(emails, err) == [kind |-> "sent.add", emails |-> emails, err |-> err]

\* toSendEmail: the Email of every entry whose key is not empty and not
\* in the sent-set, in list order
toSendEmail(list, already) ==
    LET due == SelectSeq(list, LAMBDA r : emailKey(r.Email) # <<>>
                                          /\ emailKey(r.Email) \notin already)
    IN  [i \in 1..Len(due) |-> due[i].Email]

\* the addresses handed to sent.add after the sends
fencedMutOnlySucceeded(toSend, sendOk) ==
    LET ok == {i \in 1..Len(toSend) : sendOk[i]}
        RECURSIVE pick(_)
        pick(i) == IF i > Len(toSend) THEN <<>>
                   ELSE (IF i \in ok THEN <<toSend[i]>> ELSE <<>>) \o pick(i + 1)
    IN  pick(1)

fenced(toSend, sendOk) == toSend

FiringPoll(sendOk, w) ==
    LET list == rsvpStore_list(rsvpFile)
        already == reminderSentStore_list(sentFile)
        toSend == toSendEmail(list.list, already.set)
        sends == [i \in 1..Len(toSend) |-> Reminder(toSend[i], sendOk[i])]
        add == reminderSentStore_add(sentFile, fenced(toSend, sendOk), w)
        tgUsers == tgUserStore_list(tgFile)
        broadcast == IF tgUsers.err THEN <<>>
                     ELSE [i \in 1..Len(tgUsers.users) |->
                              Telegram(tgUsers.users[i].ChatID, "reminder")]
    IN
    /\ polls < MaxPolls
    /\ isReminderDay(wake)
    /\ polls' = polls + 1
    /\ wake' = sleepUntilNextCheck(wake)
    /\ UNCHANGED <<clock, counts, admitted, tgFile, rsvpFile, steps, mu, proc>>
    /\ IF list.err \/ already.err
       THEN /\ ret' = [op |-> "poll", at |-> wake, fired |-> TRUE, loaded |-> FALSE]
            /\ outbox' = <<>>
            /\ UNCHANGED <<sentFile, reminded, faults, broadcasts>>
       ELSE /\ ret' = [op |-> "poll", at |-> wake, fired |-> TRUE, loaded |-> TRUE,
                       toSend |-> toSend, addErr |-> toSend # <<>> /\ add.err]
            /\ faults' = IF toSend # <<>> /\ add.err THEN faults + 1 ELSE faults
            /\ reminded' = reminded \o toSend
            /\ broadcasts' = broadcasts \o [i \in 1..Len(broadcast) |-> broadcast[i].to]
            /\ IF toSend # <<>>
               THEN /\ sentFile' = add.file
                    /\ outbox' = sends \o <<SentAdd(fenced(toSend, sendOk), add.err)>>
                                 \o broadcast
               ELSE /\ outbox' = broadcast
                    /\ UNCHANGED sentFile

IdlePoll ==
    /\ ~isReminderDay(wake)
    /\ wake' = sleepUntilNextCheck(wake)
    /\ ret' = [op |-> "poll", at |-> wake, fired |-> FALSE, loaded |-> FALSE]
    /\ outbox' = <<>>
    /\ UNCHANGED <<clock, counts, admitted, tgFile, rsvpFile, sentFile, reminded,
                   polls, steps, faults, broadcasts, mu, proc>>

(***************************************************************************)
(* Inputs of the handlers.                                                 *)
(***************************************************************************)
ChatIDs == {1, 2}

\* "+7 (999) 123-45-67", as the phone mask of the form produces it
PhoneMasked == <<"+", "7", " ", "(", "9", "9", "9", ")", " ",
                 "1", "2", "3", "-", "4", "5", "-", "6", "7">>

\* "79991234567": the same key as PhoneMasked
PhoneDigits == <<"7", "9", "9", "9", "1", "2", "3", "4", "5", "6", "7">>

\* "89991234567": another key
PhoneOther == <<"8", "9", "9", "9", "1", "2", "3", "4", "5", "6", "7">>

\* "-": not empty, with an empty key
PhoneDash == <<"-">>

NameA == <<"A">>

NameB == <<"B">>

UserU == <<"u">>

\* bodies of valid submissions: the masked phone with or without a Telegram
\* chat id, and another guest's phone; no email
Bodies ==
    {RSVPRequest(NameA, PhoneMasked, <<>>, c) : c \in {Nil} \cup {Ptr(i) : i \in ChatIDs}}
    \cup {RSVPRequest(NameB, PhoneOther, <<>>, Nil)}

\* a submission whose phone has too few digits
BadBody == RSVPRequest(NameA, PhoneDash, <<>>, Nil)

\* submissions that fail validation: too few phone digits, a blank name,
\* an email without "@"
BadBodies ==
    {BadBody,
     RSVPRequest(<<" ">>, PhoneMasked, <<>>, Ptr(1)),
     RSVPRequest(NameA, PhoneMasked, <<"a", "x">>, Ptr(1))}

\* webhook updates: the cancel button pressed in either chat; from chat 1
\* /start, /phone with a masked phone, and a phone typed as digits
Updates ==
    {Callback(c, "cancel_rsvp") : c \in ChatIDs}
    \cup {Message(1, <<"@">> \o UserU, t) :
            t \in {cmdStart, cmdPhone \o PhoneMasked, PhoneDigits}}

\* /api/tg/init as script.js sends it: the user's id and an empty phone
InitRequests == {InitRequest(c, <<>>, UserU, <<>>) : c \in ChatIDs}

(***************************************************************************)
(* The stores and the handlers that use them, started on empty storage.    *)
(* The Telegram bot is configured; all requests arrive within one clock    *)
(* tick from one client address, whose limiter entry is empty or holds     *)
(* rateLimitNum - 1 timestamps (as after that many submissions whose        *)
(* organizer email failed: admitted, answered 500, nothing stored).        *)
(***************************************************************************)
AlmostAtQuota == [i \in 1..(rateLimitNum - 1) |-> 0]

Init ==
    /\ clock = 0
    /\ counts \in {[k \in Keys |-> <<>>], [k \in Keys |-> IF k = "ip1" THEN AlmostAtQuota ELSE <<>>]}
    /\ admitted = counts
    /\ tgFile = Missing
    /\ rsvpFile = Missing
    /\ sentFile = Missing
    /\ outbox = <<>>
    /\ reminded = <<>>
    /\ polls = 0
    /\ steps = 0
    /\ faults = 0
    /\ ret = NoRet
    /\ wake = NoWake
    /\ broadcasts = <<>>
    /\ mu = 0
    /\ proc = NoProcs

\* the outcomes a file write may have in this step
Writes == IF faults < MaxFaults THEN WriteOutcomes ELSE {"ok"}

Submit ==
    \/ \E body \in Bodies \cup BadBodies : HandleRSVP(body, "ip1", FALSE, "ok", "ok")
    \/ \E body \in Bodies :
       \E wSave \in (IF body.TelegramChatID # Nil THEN Writes ELSE {"ok"}),
          wAppend \in Writes :
           HandleRSVP(body, "ip1", TRUE, wSave, wAppend)

Webhook ==
    \E update \in Updates :
    \E w \in (IF update.kind = "message" /\ update.text = cmdStart
              THEN {"ok"} ELSE Writes) :
        handleTelegramWebhook(update, w)

WebAppInit == \E req \in InitRequests, w \in Writes : handleTelegramInit(req, w)

Next == Submit \/ Webhook \/ WebAppInit

Spec == Init /\ [][Next]_vars

(***************************************************************************)
(* The reminder loop around the reminder day: started so that its first   *)
(* pass runs at any of Times, it polls at 09:00 of each day and may be      *)
(* restarted; the firing pass runs up to MaxPolls times (a second pass on  *)
(* the same day, or after a restart), from any content of the RSVP log of  *)
(* up to MaxEntries entries and any content of the sent-set.               *)
(***************************************************************************)
FirstDay == YearDay(reminderDay) - DaysAround

LastDay == YearDay(reminderDay) + DaysAround

\* the times explored: before and from 09:00 of each day
Times == [day : FirstDay..LastDay, hour : {CheckHour - 1, CheckHour}]

\* t is not before u
NotBefore(t, u) == t.day > u.day \/ (t.day = u.day /\ t.hour >= u.hour)

MailA == <<"a", "@", "x">>

MailACaps == <<"A", "@", "x">>

MailB == <<"b", "@", "x">>

\* entries as POST /api/rsvp stores them, with or without an email
Entries ==
    {storedRSVP(NameA, PhoneMasked, e, Nil, 0) : e \in {<<>>, MailA, MailACaps, MailB}}

RECURSIVE SeqsUpTo(_, _)
SeqsUpTo(S, n) ==
    IF n = 0 THEN {<<>>}
    ELSE LET shorter == SeqsUpTo(S, n - 1) IN
         shorter \cup {Append(q, x) : q \in shorter, x \in S}

OkFile(list) == [kind |-> "ok", data |-> list]

\* contents of reminder_sent.json as add writes them
SentLists == {<<>>, <<MailA>>, <<MailB>>, <<MailA, MailB>>, <<MailB, MailA>>}

InitReminder ==
    /\ clock = 0
    /\ counts = [k \in Keys |-> <<>>]
    /\ admitted = [k \in Keys |-> <<>>]
    /\ tgFile \in {Missing, OkFile(<<tgUser(1, PhoneMasked, NameA)>>)}
    /\ rsvpFile \in {Missing, Bad} \cup {OkFile(l) : l \in SeqsUpTo(Entries, MaxEntries)}
    /\ sentFile \in {Missing, Bad} \cup {OkFile(l) : l \in SentLists}
    /\ outbox = <<>>
    /\ reminded = <<>>
    /\ polls = 0
    /\ steps = 0
    /\ faults = 0
    /\ ret = NoRet
    /\ wake \in Times
    /\ broadcasts = <<>>
    /\ mu = 0
    /\ proc = NoProcs

\* the loop wakes up and runs one pass
Poll ==
    /\ wake.day <= LastDay
    /\ \/ IdlePoll
       \/ /\ polls < MaxPolls
          /\ isReminderDay(wake)
          /\ \E w \in WriteOutcomes :
             \E sendOk \in [1..Len(toSendEmail(decoded(rsvpFile),
                                               reminderSentStore_list(sentFile).set))
                            -> BOOLEAN] :
                 FiringPoll(sendOk, w)

\* the process is restarted after a pass: the loop starts again and runs
\* its first pass at a time t that is not before that pass
Restart ==
    /\ ret.op \in {"poll", "restart"}
    /\ \E t \in Times :
        /\ NotBefore(t, ret.at)
        /\ t # wake
        /\ wake' = t
        /\ ret' = [op |-> "restart", at |-> t]
    /\ UNCHANGED <<clock, counts, admitted, tgFile, rsvpFile, sentFile, outbox,
                   reminded, polls, steps, faults, broadcasts, mu, proc>>

NextReminder == Poll \/ Restart

SpecReminder == InitReminder /\ [][NextReminder]_vars

(***************************************************************************)
(* The limiter on its own: allow() calls for two keys as time passes.      *)
(***************************************************************************)
InitLimiter ==
    /\ clock = 0
    /\ counts = [k \in Keys |-> <<>>]
    /\ admitted = [k \in Keys |-> <<>>]
    /\ tgFile = Missing
    /\ rsvpFile = Missing
    /\ sentFile = Missing
    /\ outbox = <<>>
    /\ reminded = <<>>
    /\ polls = 0
    /\ steps = 0
    /\ faults = 0
    /\ ret = NoRet
    /\ wake = NoWake
    /\ broadcasts = <<>>
    /\ mu = 0
    /\ proc = NoProcs

\* time passes
Tick ==
    /\ clock < MaxClock
    /\ clock' = clock + 1
    /\ UNCHANGED <<counts, admitted, tgFile, rsvpFile, sentFile, outbox,
                   reminded, polls, steps, faults, ret, wake, broadcasts, mu, proc>>

\* one call limiter.allow(ip)
Allow(ip) ==
    LET r == allow(counts, ip, clock) IN
    /\ counts' = r.counts
    /\ admitted' = IF r.ok THEN [admitted EXCEPT ![ip] = Append(@, clock)]
                   ELSE admitted
    /\ ret' = [op |-> "allow", key |-> ip, now |-> clock, ok |-> r.ok,
               pre |-> counts[ip]]
    /\ UNCHANGED <<wake, broadcasts, mu, proc>>
    /\ UNCHANGED <<clock, tgFile, rsvpFile, sentFile, outbox, reminded,
                   polls, steps, faults>>

NextLimiter ==
    \/ Tick
    \/ \E ip \in Keys : Allow(ip)

SpecLimiter == InitLimiter /\ [][NextLimiter]_vars

(***************************************************************************)
(* The sent-set on its own: reminderSentStore.add called up to MaxSteps    *)
(* times on a file that is missing or holds an empty list at first.        *)
(***************************************************************************)
\* " a@x ": MailA with surrounding blanks
MailASpaced == <<" ", "a", "@", "x", " ">>

\* " ": an address with an empty key
MailBlank == <<" ">>

\* the arguments of add: up to MaxEntries addresses, repeated ones and ones
\* differing in case or blanks included
AddArgs == SeqsUpTo({MailA, MailACaps, MailASpaced, MailB, MailBlank, <<>>}, MaxEntries)

InitSent ==
    /\ clock = 0
    /\ counts = [k \in Keys |-> <<>>]
    /\ admitted = [k \in Keys |-> <<>>]
    /\ tgFile = Missing
    /\ rsvpFile = Missing
    /\ sentFile \in {Missing, OkFile(<<>>)}
    /\ outbox = <<>>
    /\ reminded = <<>>
    /\ polls = 0
    /\ steps = 0
    /\ faults = 0
    /\ ret = NoRet
    /\ wake = NoWake
    /\ broadcasts = <<>>
    /\ mu = 0
    /\ proc = NoProcs

\* the addresses that decoded from reminder_sent.json before the last call
\* of add, in any earlier state
everSent == IF ret.op = "add" THEN ret.ever ELSE {}

\* one call sent.add(emails)
AddSent ==
    /\ steps < MaxSteps
    /\ \E emails \in AddArgs, w \in Writes :
        LET r == reminderSentStore_add(sentFile, emails, w) IN
        /\ Invoked(r.err)
        /\ sentFile' = r.file
        /\ ret' = [op |-> "add", emails |-> emails, err |-> r.err,
                   ever |-> everSent \cup Range(decoded(sentFile))]
    /\ UNCHANGED <<clock, counts, admitted, tgFile, rsvpFile, outbox, reminded, polls,
                   wake, broadcasts, mu, proc>>

NextSent == AddSent

SpecSent == InitSent /\ [][NextSent]_vars

(***************************************************************************)
(* rsvpStore under concurrency: MaxProcs goroutines, each running one      *)
(* operation on rsvps.json step by step (Lock, ReadFile, WriteFile,        *)
(* Unlock): append from a request handler, the filter-and-overwrite of     *)
(* cancelRSVPByChatID, or list.  Writes succeed.  ret keeps the log that   *)
(* was on file when the goroutines started.                                *)
(***************************************************************************)
Procs == 1..MaxProcs

AppendOp(entry) == [kind |-> "append", entry |-> entry]

\* the part of cancelRSVPByChatID that follows the lookup of userPhone
CancelOp(userPhone) == [kind |-> "cancel", phone |-> userPhone]

ListOp == [kind |-> "list"]

\* the entry goroutine p appends
EntryOf(p) ==
    storedRSVP(NameA, IF p = 1 THEN PhoneMasked ELSE PhoneOther, <<>>, Ptr(p), 0)

OpsOf(p) == {AppendOp(EntryOf(p)), CancelOp(PhoneDigits), ListOp}

\* the entry on file when the goroutines start
EntryAtStart == storedRSVP(NameB, PhoneMasked, <<>>, Nil, 0)

\* the list an operation holds in memory after its read: what append or
\* the filter of the cancellation makes of the list read
modified(op, list) ==
    CASE op.kind = "append" -> Append(list, op.entry)
      [] op.kind = "cancel" ->
            SelectSeq(list, LAMBDA r : normalizePhone(r.Phone) # normalizePhone(op.phone))
      [] OTHER -> list

\* a Lock that does not wait for the mutex
mayLockMutAlways(holder) == TRUE

\* sync.Mutex.Lock returns when nobody holds the mutex
mayLock(holder) == holder = 0

InitConc ==
    /\ clock = 0
    /\ counts = [k \in Keys |-> <<>>]
    /\ admitted = [k \in Keys |-> <<>>]
    /\ tgFile = Missing
    /\ rsvpFile \in {Missing, OkFile(<<EntryAtStart>>)}
    /\ sentFile = Missing
    /\ outbox = <<>>
    /\ reminded = <<>>
    /\ polls = 0
    /\ steps = 0
    /\ faults = 0
    /\ ret = [op |-> "go", log |-> decoded(rsvpFile)]
    /\ wake = NoWake
    /\ broadcasts = <<>>
    /\ mu = 0
    /\ proc \in [Procs -> [op : UNION {OpsOf(p) : p \in Procs}, pc : {"start"}, local : {<<>>}]]
    /\ \A p \in Procs : proc[p].op \in OpsOf(p)

\* s.mu.Lock()
Lock(p) ==
    /\ proc[p].pc = "start"
    /\ mayLock(mu)
    /\ mu' = p
    /\ proc' = [proc EXCEPT ![p].pc = "locked"]
    /\ UNCHANGED rsvpFile

\* os.ReadFile and json.Unmarshal, then the change made in memory
ReadFile(p) ==
    /\ proc[p].pc = "locked"
    /\ proc' = [proc EXCEPT ![p].pc = "read",
                            ![p].local = modified(proc[p].op, decoded(rsvpFile))]
    /\ UNCHANGED <<mu, rsvpFile>>

\* os.WriteFile of the list held in memory
WriteBack(p) ==
    /\ proc[p].pc = "read"
    /\ proc[p].op.kind # "list"
    /\ rsvpFile' = WriteFile(rsvpFile, proc[p].local, "ok")
    /\ proc' = [proc EXCEPT ![p].pc = "written"]
    /\ UNCHANGED mu

\* the deferred s.mu.Unlock() on return
Unlock(p) ==
    /\ \/ proc[p].pc = "written"
       \/ proc[p].pc = "read" /\ proc[p].op.kind = "list"
    /\ mu' = 0
    /\ proc' = [proc EXCEPT ![p].pc = "done"]
    /\ UNCHANGED rsvpFile

NextConc ==
    /\ \E p \in Procs : Lock(p) \/ ReadFile(p) \/ WriteBack(p) \/ Unlock(p)
    /\ UNCHANGED <<clock, counts, admitted, tgFile, sentFile, outbox, reminded,
                   polls, steps, faults, ret, wake, broadcasts>>

SpecConc == InitConc /\ [][NextConc]_vars

(***************************************************************************)
(* The timing of runReminderLoop.  clock is the local time in ticks since  *)
(* the start of Year (a day has 24 hours: no change of the UTC offset in   *)
(* the days explored); it is the time at which the loop is started, and    *)
(* later the time at which its sleep returns.  polls counts the passes     *)
(* that took the fire path.  time.Sleep returns after its duration, at     *)
(* most MaxLate ticks late; the body of a pass takes at most MaxBusy ticks.*)
(***************************************************************************)
Minute == TicksPerMinute

TicksPerHour == 60 * Minute

TicksPerDay == 24 * TicksPerHour

\* now.Date(): the day of Year of time t
dayOf(t) == t \div TicksPerDay

\* time.Date(now.Year(), now.Month(), now.Day(), 9, 0, 0, 0, time.Local)
today9(now) == dayOf(now) * TicksPerDay + CheckHour * TicksPerHour

\* the duration of sleepUntilNextCheck without its floor of one minute
sleepDurationMutNoFloor(now) ==
    LET next == IF now >= today9(now) THEN today9(now) + TicksPerDay ELSE today9(now)
    IN  next - now

\* the duration sleepUntilNextCheck passes to time.Sleep when called at now
sleepDuration(now) ==
    LET next == IF now >= today9(now) THEN today9(now) + TicksPerDay ELSE today9(now)
        d == next - now
    IN  IF d < Minute THEN Minute ELSE d

\* the times of day at which the loop is started: around 00:00 and 09:00
StartTicks ==
    {t \in 0..(TicksPerDay - 1) :
        \/ t <= NearTicks
        \/ t >= TicksPerDay - NearTicks
        \/ (t >= CheckHour * TicksPerHour - NearTicks
             /\ t <= CheckHour * TicksPerHour + NearTicks)}

InitLoop ==
    /\ clock \in {d * TicksPerDay + t : d \in FirstDay..LastDay, t \in StartTicks}
    /\ counts = [k \in Keys |-> <<>>]
    /\ admitted = [k \in Keys |-> <<>>]
    /\ tgFile = Missing
    /\ rsvpFile = Missing
    /\ sentFile = Missing
    /\ outbox = <<>>
    /\ reminded = <<>>
    /\ polls = 0
    /\ steps = 0
    /\ faults = 0
    /\ ret = [op |-> "go", start |-> clock]
    /\ wake = NoWake
    /\ broadcasts = <<>>
    /\ mu = 0
    /\ proc = NoProcs

\* time.Sleep(time.Minute) before the first pass
FirstSleep ==
    /\ ret.op = "go"
    /\ \E late \in 0..MaxLate : clock' = clock + Minute + late
    /\ ret' = [op |-> "sleep", start |-> ret.start]
    /\ UNCHANGED <<counts, admitted, tgFile, rsvpFile, sentFile, outbox, reminded,
                   polls, steps, faults, wake, broadcasts, mu, proc>>

\* one pass of the for loop: the test of today's date at clock, the fire
\* path when it is the reminder day, and sleepUntilNextCheck
Pass ==
    /\ ret.op \in {"sleep", "pass"}
    /\ dayOf(clock) <= LastDay
    /\ \E busy \in 0..MaxBusy, late \in 0..MaxLate :
        LET fired == isReminderDay([day |-> dayOf(clock)])
            now == clock + busy
            d == sleepDuration(now)
        IN
        /\ polls' = IF fired THEN polls + 1 ELSE polls
        /\ clock' = now + d + late
        /\ ret' = [op |-> "pass", start |-> ret.start, at |-> clock, fired |-> fired,
                   now |-> now, d |-> d]
    /\ UNCHANGED <<counts, admitted, tgFile, rsvpFile, sentFile, outbox, reminded,
                   steps, faults, wake, broadcasts, mu, proc>>

NextLoop == FirstSleep \/ Pass

SpecLoop == InitLoop /\ [][NextLoop]_vars

(***************************************************************************)
(* The goroutines of the server and what they hold.  A task runs the       *)
(* sequence of steps of its code: Lock and Unlock of a mutex, file I/O,    *)
(* the call of a collaborator over the network and its return, the start   *)
(* of a goroutine, the response.  mu[l] is the task that holds mutex l, or *)
(* 0; proc[p] is the program of task p and the position it is at.  A call  *)
(* of a collaborator may never return.                                     *)
(***************************************************************************)
Mutexes == {"rsvpLimiter", "tgUserStore", "rsvpStore", "reminderSentStore"}

StoreMutexes == Mutexes \ {"rsvpLimiter"}

Step(op, on) == [op |-> op, on |-> on]

\* a method that does n file accesses between mu.Lock() and the deferred
\* mu.Unlock()
locked(l, n) ==
    <<Step("Lock", l)>> \o [i \in 1..n |-> Step("io", l)] \o <<Step("Unlock", l)>>

\* a call of a collaborator: the request, and the return of the call
send(to) == <<Step("call", to), Step("return", to)>>

\* cancelRSVPByChatID that keeps tgUserStore.mu until it returns
cancelRSVPByChatIDStepsMutNested(found) ==
    <<Step("Lock", "tgUserStore"), Step("io", "tgUserStore")>>
    \o (IF found THEN locked("rsvpStore", 2) ELSE <<>>)
    \o <<Step("Unlock", "tgUserStore")>>

\* cancelRSVPByChatID: tgStore.list(), and when the chat id has a phone the
\* read and the write of rsvps.json under rsvpStore.mu
cancelRSVPByChatIDSteps(found) ==
    locked("tgUserStore", 1) \o (IF found THEN locked("rsvpStore", 2) ELSE <<>>)

\* the cancel_rsvp callback with the mutex of rsvpStore released only when
\* the handler returns
handleCancelStepsMutUnlockLast(found) ==
    locked("tgUserStore", 1)
    \o (IF found THEN <<Step("Lock", "rsvpStore"), Step("io", "rsvpStore"),
                        Step("io", "rsvpStore")>>
        ELSE <<>>)
    \o send("telegram") \o send("telegram")
    \o (IF found THEN <<Step("Unlock", "rsvpStore")>> ELSE <<>>)
    \o <<Step("respond", "200")>>

\* handleTelegramWebhook on the cancel_rsvp callback: cancelRSVPByChatID,
\* answerCallback, sendMessage, the response
handleCancelSteps(found) ==
    cancelRSVPByChatIDSteps(found) \o send("telegram") \o send("telegram")
    \o <<Step("respond", "200")>>

\* POST /api/rsvp refused by the limiter
HandleRSVPStepsRefused == locked("rsvpLimiter", 0) \o <<Step("respond", "429")>>

\* POST /api/rsvp whose organizer email fails
HandleRSVPStepsFailed ==
    locked("rsvpLimiter", 0) \o send("email") \o <<Step("respond", "500")>>

\* POST /api/rsvp of a valid submission: limiter.allow, the organizer email,
\* the guest email, tgStore.save and tgStore.get, the goroutine that sends
\* the Telegram message, store.append, the response
HandleRSVPSteps(hasEmail, hasChat, found) ==
    locked("rsvpLimiter", 0)
    \o send("email")
    \o (IF hasEmail THEN send("email") ELSE <<>>)
    \o (IF hasChat THEN locked("tgUserStore", 2) ELSE <<>>)
    \o locked("tgUserStore", 1)
    \o (IF found THEN <<Step("go", "telegram")>> ELSE <<>>)
    \o locked("rsvpStore", 2)
    \o <<Step("respond", "200")>>

\* the fire path of runReminderLoop with one address to remind and one
\* Telegram user: store.list, sent.list, the email, sent.add, tgStore.list,
\* the Telegram message
runReminderLoopSteps ==
    locked("rsvpStore", 1) \o locked("reminderSentStore", 1)
    \o send("email")
    \o locked("reminderSentStore", 2)
    \o locked("tgUserStore", 1)
    \o send("telegram")

\* the tasks: the handler of a submission, the handler of a cancellation,
\* the reminder loop, and the goroutine the submission starts
Handler == 1

Canceller == 2

Scheduler == 3

Sender == 4

Tasks == {Handler, Canceller, Scheduler, Sender}

Task(prog, isAdmitted) == [prog |-> prog, pc |-> 1, admitted |-> isAdmitted]

\* the step task p is at, or no step when it has finished
AtEnd == Step("end", "")

at(p) == IF proc[p].pc <= Len(proc[p].prog) THEN proc[p].prog[proc[p].pc] ELSE AtEnd

HandlerPrograms ==
    {Task(HandleRSVPStepsRefused, FALSE), Task(HandleRSVPStepsFailed, TRUE),
     Task(HandleRSVPSteps(TRUE, TRUE, TRUE), TRUE),
     Task(HandleRSVPSteps(FALSE, FALSE, FALSE), TRUE)}

InitTasks ==
    /\ clock = 0
    /\ counts = [k \in Keys |-> <<>>]
    /\ admitted = [k \in Keys |-> <<>>]
    /\ tgFile = Missing
    /\ rsvpFile = Missing
    /\ sentFile = Missing
    /\ outbox = <<>>
    /\ reminded = <<>>
    /\ polls = 0
    /\ steps = 0
    /\ faults = 0
    /\ ret = [op |-> "serve"]
    /\ wake = NoWake
    /\ broadcasts = <<>>
    /\ mu = [l \in Mutexes |-> 0]
    /\ \E h \in HandlerPrograms, found \in BOOLEAN :
          proc = [p \in Tasks |->
                    CASE p = Handler -> h
                      [] p = Canceller -> Task(handleCancelSteps(found), FALSE)
                      [] p = Scheduler -> Task(runReminderLoopSteps, FALSE)
                      [] OTHER -> Task(<<>>, FALSE)]

\* what no step of a task changes
untouched ==
    <<clock, counts, admitted, tgFile, rsvpFile, sentFile, outbox, reminded, polls,
      steps, faults, ret, wake, broadcasts>>

Advance(p) == proc' = [proc EXCEPT ![p].pc = proc[p].pc + 1]

\* mu.Lock()
Acquire(p) ==
    /\ at(p).op = "Lock"
    /\ mayLock(mu[at(p).on])
    /\ mu' = [mu EXCEPT ![at(p).on] = p]
    /\ Advance(p)
    /\ UNCHANGED untouched

\* mu.Unlock()
Release(p) ==
    /\ at(p).op = "Unlock"
    /\ mu' = [mu EXCEPT ![at(p).on] = 0]
    /\ Advance(p)
    /\ UNCHANGED untouched

\* os.ReadFile or os.WriteFile, which returns
FileIO(p) ==
    /\ at(p).op = "io"
    /\ Advance(p)
    /\ UNCHANGED <<mu, untouched>>

\* client.Emails.Send or http.Post is called
CallOut(p) ==
    /\ at(p).op = "call"
    /\ Advance(p)
    /\ UNCHANGED <<mu, untouched>>

\* the call returns
ReturnFrom(p) ==
    /\ at(p).op = "return"
    /\ Advance(p)
    /\ UNCHANGED <<mu, untouched>>

\* go func() { tg.sendMessageWithCancel(...) }()
Spawn(p) ==
    /\ at(p).op = "go"
    /\ proc' = [proc EXCEPT ![p].pc = proc[p].pc + 1,
                            ![Sender] = Task(send(at(p).on), FALSE)]
    /\ UNCHANGED <<mu, untouched>>

\* the response is written and the handler returns
Respond(p) ==
    /\ at(p).op = "respond"
    /\ Advance(p)
    /\ UNCHANGED <<mu, untouched>>

\* the steps of task p that the Go scheduler and the file system carry out
Run(p) == Acquire(p) \/ Release(p) \/ FileIO(p) \/ CallOut(p) \/ Spawn(p) \/ Respond(p)

NextTasks == \E p \in Tasks : Run(p) \/ ReturnFrom(p)

SpecTasks == InitTasks /\ [][NextTasks]_vars

\* every runnable goroutine runs and file I/O returns; nothing makes a
\* collaborator answer
LiveTasks ==
    SpecTasks /\ \A p \in Tasks : WF_vars(Run(p))

\* timestamps of key k admitted in the trailing window that ends at t
AdmittedIn(k, t) ==
    {i \in 1..Len(admitted[k]) :
        admitted[k][i] > t - rateLimitWindow /\ admitted[k][i] <= t}

\* C1: for every key and every trailing one-minute window up to now, at
\* most rateLimitNum calls were admitted inside the window.
C1_Quota ==
    \A k \in Keys : \A t \in 0..clock :
        Cardinality(AdmittedIn(k, t)) <= rateLimitNum

\* a call was rejected while rateLimitNum admitted calls are inside the
\* window, and older admitted calls have already left it
C1_Witness ==
    /\ ret.op = "allow"
    /\ ~ret.ok
    /\ Cardinality(AdmittedIn(ret.key, clock)) = rateLimitNum
    /\ Len(admitted[ret.key]) > rateLimitNum

\* C2: a key at quota whose oldest admitted timestamp is at or before the
\* cutoff (now - window) is admitted by allow, and now is recorded.
C2_SlotRelease ==
    (/\ ret.op = "allow"
     /\ Len(ret.pre) = rateLimitNum
     /\ ret.pre[1] <= ret.now - rateLimitWindow)
    => /\ ret.ok
       /\ counts[ret.key] # <<>>
       /\ Last(counts[ret.key]) = ret.now

\* the key was at quota, its oldest timestamp exactly at the cutoff, the
\* other four still inside the window, and the call was admitted
C2_Witness ==
    /\ ret.op = "allow"
    /\ Len(ret.pre) = rateLimitNum
    /\ ret.pre[1] = ret.now - rateLimitWindow
    /\ ret.pre[2] > ret.now - rateLimitWindow
    /\ ret.ok
    /\ Len(counts[ret.key]) = rateLimitNum

(***************************************************************************)
(* Properties of the stores and handlers (Spec).                           *)
(***************************************************************************)
\* the step is an invocation of a handler
Handled == steps' = steps + 1

\* the step is a POST /api/rsvp that reached store.append
Appended == Handled /\ ret'.op = "rsvp" /\ ret'.status = 200

\* the step called tgStore.save, and save returned nil
Saved ==
    /\ Handled
    /\ ret'.op \in {"rsvp", "phone", "init"}
    /\ ret'.op = "rsvp" => ret'.status = 200
    /\ ret'.saved
    /\ ~ret'.saveErr

\* the step is cancelRSVPByChatID(ret'.chat)
Cancelled == Handled /\ ret'.op = "cancel"

phoneKeys(users) == [i \in 1..Len(users) |-> normalizePhone(users[i].Phone)]

\* C3: when list() succeeds on the file and append(e) then returns nil, the
\* next list() returns what the first returned, followed by e.
C3_AppendThenList ==
    [][(Appended /\ ~ret'.appendErr /\ ~rsvpStore_list(rsvpFile).err)
       => rsvpStore_list(rsvpFile') =
            [err |-> FALSE,
             list |-> Append(rsvpStore_list(rsvpFile).list, ret'.entry)]]_vars

\* an entry was appended, without error, behind an entry with another phone
C3_Witness ==
    /\ ret.op = "rsvp"
    /\ ret.status = 200
    /\ ~ret.appendErr
    /\ Len(decoded(rsvpFile)) >= 2
    /\ Last(decoded(rsvpFile)) = ret.entry
    /\ decoded(rsvpFile)[1].Phone # ret.entry.Phone

\* C4: the identity store never holds two records whose normalized phones
\* are equal.
C4_UniquePhoneKey ==
    LET keys == phoneKeys(decoded(tgFile)) IN
    \A i, j \in 1..Len(keys) : i # j => keys[i] # keys[j]

\* C5: when save(u2) returns nil on a store that holds a record u1 with the
\* same normalized phone and another chat id or name, the store holds one
\* record under that key afterwards, get(phone) returns u2's chat id and
\* name, and the confirmation of an RSVP goes to u2's chat id.
C5_UpsertKeepsLatest ==
    [][(/\ Saved
        /\ \E u1 \in Range(decoded(tgFile)) :
              /\ normalizePhone(u1.Phone) = normalizePhone(ret'.user.Phone)
              /\ (u1.ChatID # ret'.user.ChatID \/ u1.Name # ret'.user.Name))
       => LET keys == phoneKeys(decoded(tgFile'))
              g == tgUserStore_get(tgFile', ret'.user.Phone)
          IN  /\ Cardinality({i \in 1..Len(keys) :
                                keys[i] = normalizePhone(ret'.user.Phone)}) = 1
              /\ g.found
              /\ g.user.ChatID = ret'.user.ChatID
              /\ g.user.Name = ret'.user.Name
              /\ ret'.op = "rsvp"
                 => Telegram(ret'.user.ChatID, "confirm") \in Range(outbox')]_vars

\* C6 (save): when save of an identity whose normalized phone is empty
\* returns nil, every record that belonged to another chat id is still in
\* the store.
C6_EmptyKeyNeverMatches ==
    [][(Saved /\ normalizePhone(ret'.user.Phone) = <<>>)
       => \A u \in Range(decoded(tgFile)) :
            u.ChatID # ret'.user.ChatID => u \in Range(decoded(tgFile'))]_vars

\* C7 as claimed: cancelRSVPByChatID(c), when the identity store holds no
\* record with chat id c, returns nil and leaves the three files as they are.
C7_CancelUnknownIsNoopAsClaimed ==
    [][(/\ Cancelled
        /\ \A u \in Range(decoded(tgFile)) : u.ChatID # ret'.chat)
       => /\ ~ret'.err
          /\ rsvpFile' = rsvpFile
          /\ tgFile' = tgFile
          /\ sentFile' = sentFile]_vars

\* C7 as amended: cancelRSVPByChatID(c), when the identity store loads
\* without error and holds no record with chat id c, returns nil and leaves
\* the three files as they are.
C7_CancelUnknownIsNoop ==
    [][(/\ Cancelled
        /\ ~tgUserStore_list(tgFile).err
        /\ \A u \in Range(decoded(tgFile)) : u.ChatID # ret'.chat)
       => /\ ~ret'.err
          /\ rsvpFile' = rsvpFile
          /\ tgFile' = tgFile
          /\ sentFile' = sentFile]_vars

\* a cancellation for a chat id without identity returned nil, while another
\* chat id is registered and the RSVP log holds entries
C7_Witness ==
    /\ ret.op = "cancel"
    /\ ~ret.err
    /\ decoded(tgFile) # <<>>
    /\ \A u \in Range(decoded(tgFile)) : u.ChatID # ret.chat
    /\ decoded(rsvpFile) # <<>>

\* C8: when identities with chat id c exist and cancelRSVPByChatID(c)
\* returns nil, the RSVP log afterwards holds no entry whose normalized
\* phone is the phone key of one of them, and is otherwise the log before:
\* the other entries, unmodified and in their order.
C8_CancelRemovesMatching ==
    [][(Cancelled /\ ~ret'.err)
       => LET keys == {normalizePhone(u.Phone) :
                         u \in {v \in Range(decoded(tgFile)) : v.ChatID = ret'.chat}}
          IN  keys # {}
              => decoded(rsvpFile') =
                   SelectSeq(decoded(rsvpFile),
                      LAMBDA r : normalizePhone(r.Phone) \notin keys)]_vars

(***************************************************************************)
(* Properties of the reminder pass (SpecReminder).                         *)
(***************************************************************************)
\* reminder emails dispatched so far to the address with key k
Dispatches(k) == {i \in 1..Len(reminded) : emailKey(reminded[i]) = k}

\* C9: after the firing pass has run twice in a row, no file write having
\* failed, at most one reminder email was dispatched per recipient address,
\* counted over both runs.
C9_AtMostOncePerRecipient ==
    (polls = 2 /\ faults = 0) =>
    \A i \in 1..Len(reminded) : Cardinality(Dispatches(emailKey(reminded[i]))) <= 1

\* the sent.add records of the last pass, and the positions of its emails
AddsAt == {i \in 1..Len(outbox) : outbox[i].kind = "sent.add"}

SendsAt == {i \in 1..Len(outbox) : outbox[i].kind = "email"}

\* every candidate of the last pass is in the sent-set on file, put there by
\* one sent.add made after the last send
Fenced ==
    /\ ~reminderSentStore_list(sentFile).err
    /\ \A i \in 1..Len(ret.toSend) :
          emailKey(ret.toSend[i]) \in reminderSentStore_list(sentFile).set
    /\ ret.toSend # <<>> =>
          /\ Cardinality(AddsAt) = 1
          /\ \A a \in AddsAt :
                /\ \A i \in SendsAt : i < a
                /\ \A i \in 1..Len(ret.toSend) :
                      \E j \in 1..Len(outbox[a].emails) :
                          emailKey(outbox[a].emails[j]) = emailKey(ret.toSend[i])

C11_SentSetUnique ==
    LET list == decoded(sentFile) IN
    /\ \A i \in 1..Len(list) :
          /\ list[i] # <<>>
          /\ \A j \in 1..Len(list[i]) : list[i][j] \notin Range(Upper)
          /\ list[i][1] \notin Spaces
          /\ Last(list[i]) \notin Spaces
    /\ \A i, j \in 1..Len(list) : i # j => list[i] # list[j]

\* add was given one address twice, in different letter case, on a file
\* that already held another address, and the file now holds both once
C11_Witness ==
    /\ ret.op = "add"
    /\ ~ret.err
    /\ Len(ret.emails) = 2
    /\ ret.emails[1] # ret.emails[2]
    /\ emailKey(ret.emails[1]) = emailKey(ret.emails[2])
    /\ Len(decoded(sentFile)) = 2
    /\ decoded(sentFile)[2] = emailKey(ret.emails[1])

\* C25: an address that once decoded from reminder_sent.json decodes from it
\* after every later call of add that leaves the file decodable.
C25_SentSetMonotone ==
    (ret.op = "add" /\ ~readErr(sentFile))
        => ret.ever \subseteq Range(decoded(sentFile))

(***************************************************************************)
(* Error handling and frame of POST /api/rsvp and of the stores (Spec).    *)
(***************************************************************************)
\* C12: no operation replaces a backing file that is present but
\* undecodable: such a file is the same file after every step.
C12_CorruptFileKept ==
    [][/\ readErr(rsvpFile) => rsvpFile' = rsvpFile
       /\ readErr(tgFile) => tgFile' = tgFile
       /\ readErr(sentFile) => sentFile' = sentFile]_vars

\* C13: a submission whose append of the RSVP entry failed is not answered
\* with the success status.
C13_AppendFailureSurfaced ==
    (ret.op = "rsvp" /\ ret.status = 200) => ~ret.appendErr

\* the submission is malformed: blank or over-long name, fewer than
\* MinPhoneDigits digits, or an email that is over-long or lacks "@"
Malformed(b) ==
    \/ TrimSpace(b.Name) = <<>>
    \/ Len(TrimSpace(b.Name)) > MaxNameLen
    \/ Cardinality({i \in 1..Len(b.Phone) : b.Phone[i] \in Digits}) < MinPhoneDigits
    \/ /\ TrimSpace(b.Email) # <<>>
       /\ \/ Len(TrimSpace(b.Email)) > MaxEmailLen
          \/ "@" \notin Range(b.Email)

\* the client address has used its quota in the window that ends now
AtQuota == Cardinality(AdmittedIn("ip1", clock)) >= rateLimitNum

\* the step is a POST /api/rsvp
Submitted == Handled /\ ret'.op = "rsvp"

\* C14: every valid, admitted submission is answered 200 and, when the
\* write succeeds, leaves as last entry of the log the trimmed name, phone
\* and email submitted, whatever the outcome of the organizer email.
C14_CollaboratorFailureKeepsRecord ==
    [][(Submitted /\ ~Malformed(ret'.body) /\ ~AtQuota)
       => /\ ret'.status = 200
          /\ ~ret'.appendErr =>
                /\ decoded(rsvpFile') # <<>>
                /\ Last(decoded(rsvpFile')).Name = TrimSpace(ret'.body.Name)
                /\ Last(decoded(rsvpFile')).Phone = TrimSpace(ret'.body.Phone)
                /\ Last(decoded(rsvpFile')).Email = TrimSpace(ret'.body.Email)]_vars

\* C15: a submission that is malformed, or made when the client address is
\* at quota, is rejected (400 or 429), leaves the three files as they were
\* and dispatches nothing.
C15_RejectedChangesNothing ==
    [][(Submitted /\ (Malformed(ret'.body) \/ AtQuota))
       => /\ ret'.status \in {400, 429}
          /\ rsvpFile' = rsvpFile
          /\ tgFile' = tgFile
          /\ sentFile' = sentFile
          /\ outbox' = <<>>]_vars

\* a well-formed submission was rejected by the limiter while the RSVP log
\* and the identity store held records
C15_Witness ==
    /\ ret.op = "rsvp"
    /\ ret.status = 429
    /\ ~Malformed(ret.body)
    /\ decoded(rsvpFile) # <<>>
    /\ decoded(tgFile) # <<>>

(***************************************************************************)
(* Scheduling of the reminder loop (SpecReminder).                         *)
(***************************************************************************)
\* the configured event date, 5 March 2026, minus 10 days
TriggerDate == [y |-> 2026, m |-> 2, d |-> 23]

\* the step is one pass of the loop, run at time wake
Polled == ret'.op = "poll" /\ wake' # wake

\* the emails in a sequence of collaborator calls
EmailsIn(calls) == {i \in 1..Len(calls) : calls[i].kind = "email"}

\* C17: a pass of the loop on a local date other than the trigger date
\* dispatches nothing and leaves the three files as they were.
C17_FiresOnlyOnTriggerDate ==
    [][(Polled /\ Date(wake.day) # TriggerDate)
       => /\ outbox' = <<>>
          /\ reminded' = reminded
          /\ broadcasts' = broadcasts
          /\ sentFile' = sentFile
          /\ rsvpFile' = rsvpFile
          /\ tgFile' = tgFile]_vars

\* the loop ran a pass on the day after the trigger date, with an identity
\* registered and an address still due, and dispatched nothing
C17_Witness ==
    /\ ret.op = "poll"
    /\ Date(ret.at.day) = [y |-> 2026, m |-> 2, d |-> 24]
    /\ polls >= 1
    /\ decoded(tgFile) # <<>>
    /\ toSendEmail(decoded(rsvpFile), reminderSentStore_list(sentFile).set) # <<>>
    /\ outbox = <<>>

\* C18: every chat id was sent the channel reminder at most once.
C18_ChannelReminderOnce ==
    \A c \in ChatIDs : Cardinality({i \in 1..Len(broadcasts) : broadcasts[i] = c}) <= 1

\* C19: after a pass on the trigger date, when the identity store loads, a
\* channel reminder was attempted to every registered identity.
C19_BroadcastUnconditional ==
    (/\ ret.op = "poll"
     /\ Date(ret.at.day) = TriggerDate
     /\ ~tgUserStore_list(tgFile).err)
    => \A u \in Range(decoded(tgFile)) : Telegram(u.ChatID, "reminder") \in Range(outbox)

\* C20: a pass on the trigger date that cannot load the RSVP list or the
\* sent-set dispatches no email, leaves the sent-set file as it was, and
\* the loop polls again at the next 09:00.
C20_LoadFailureIsTransient ==
    [][(Polled /\ Date(wake.day) = TriggerDate /\ (readErr(rsvpFile) \/ readErr(sentFile)))
       => /\ EmailsIn(outbox') = {}
          /\ reminded' = reminded
          /\ sentFile' = sentFile
          /\ wake'.hour = 9
          /\ wake'.day = IF wake.hour < 9 THEN wake.day ELSE wake.day + 1]_vars

\* a pass before 09:00 on the trigger date found the sent-set undecodable
\* while the RSVP log held an entry with an email
C20_Witness ==
    /\ ret.op = "poll"
    /\ Date(ret.at.day) = TriggerDate
    /\ ret.at.hour < 9
    /\ readErr(sentFile)
    /\ \E r \in Range(decoded(rsvpFile)) : r.Email # <<>>
    /\ wake = [day |-> ret.at.day, hour |-> 9]

(***************************************************************************)
(* Atomicity of the operations of rsvpStore (SpecConc).                    *)
(***************************************************************************)
\* the orders in which the goroutines can be put
Orders == {o \in [Procs -> Procs] : \A i, j \in Procs : i # j => o[i] # o[j]}

\* the log after the first n operations of order o, run one after another
RECURSIVE LogAfter(_, _)
LogAfter(o, n) ==
    IF n = 0 THEN ret.log
    ELSE LET op == proc[o[n]].op
             before == LogAfter(o, n - 1)
         IN  CASE op.kind = "append" -> Append(before, op.entry)
               [] op.kind = "cancel" ->
                     SelectSeq(before, LAMBDA r : normalizePhone(r.Phone)
                                                  # normalizePhone(op.phone))
               [] OTHER -> before

AllDone == \A p \in Procs : proc[p].pc = "done"

\* C16: when all concurrent operations have returned, there is a serial
\* order of them that yields the log on file and the list each list()
\* returned; when all of them are appends, the log has grown by their
\* number.
C16_NoLostUpdates ==
    AllDone =>
       /\ \E o \in Orders :
             /\ decoded(rsvpFile) = LogAfter(o, MaxProcs)
             /\ \A n \in Procs :
                   proc[o[n]].op.kind = "list" => proc[o[n]].local = LogAfter(o, n - 1)
       /\ (\A p \in Procs : proc[p].op.kind = "append")
             => Len(decoded(rsvpFile)) = Len(ret.log) + MaxProcs

\* two appends and a cancellation ran concurrently on a log that held an
\* entry, and both appended entries are on file
C16_Witness ==
    /\ ret.op = "go"
    /\ AllDone
    /\ ret.log # <<>>
    /\ Cardinality({p \in Procs : proc[p].op.kind = "append"}) = 2
    /\ \E p \in Procs : proc[p].op.kind = "cancel"
    /\ Len(decoded(rsvpFile)) = 2

(***************************************************************************)
(* Frame of the limiter (SpecLimiter).                                     *)
(***************************************************************************)
\* C23: a call of allow that returns false leaves the timestamps of every
\* key as they were; a call that returns true leaves the other keys as they
\* were and adds one timestamp, now, at the end of the record of its key,
\* the rest of which are timestamps the record already held, in their order.
C23_RejectionRecordsNothing ==
    [][(clock' = clock /\ ret'.op = "allow")
       => IF ret'.ok
          THEN /\ \A k \in Keys \ {ret'.key} : counts'[k] = counts[k]
               /\ counts'[ret'.key] # <<>>
               /\ Last(counts'[ret'.key]) = clock
               /\ \E n \in 1..(Len(counts[ret'.key]) + 1) :
                     counts'[ret'.key] =
                        Append(SubSeq(counts[ret'.key], n, Len(counts[ret'.key])), clock)
          ELSE counts' = counts]_vars

\* a call for a key at quota was rejected while the other key had
\* timestamps on record
C23_Witness ==
    /\ ret.op = "allow"
    /\ ~ret.ok
    /\ Len(counts[ret.key]) = rateLimitNum
    /\ \E k \in Keys \ {ret.key} : counts[k] # <<>>

(***************************************************************************)
(* Cancellation and the identity store (Spec).                             *)
(***************************************************************************)
\* C24: cancelRSVPByChatID(c) leaves the identity store as it was, and
\* afterwards get, asked for the phone of an identity registered under c,
\* returns an identity of chat id c.
C24_CancelKeepsIdentities ==
    [][Cancelled
       => /\ tgFile' = tgFile
          /\ \A u \in Range(decoded(tgFile)) :
                u.ChatID = ret'.chat
                => /\ tgUserStore_get(tgFile', u.Phone).found
                   /\ tgUserStore_get(tgFile', u.Phone).user.ChatID = ret'.chat]_vars

(***************************************************************************)
(* The RSVP log over the steps of the system (Spec).                       *)
(***************************************************************************)
\* the step leaves the log as it was, or a submission answered 200 adds its
\* entry at the end, or a cancellation removes the entries with the phone
\* key of an identity of its chat id and keeps the others in their order
LogStep ==
    LET old == decoded(rsvpFile)
        new == decoded(rsvpFile')
    IN  \/ new = old
        \/ /\ Appended
           /\ new = Append(old, ret'.entry)
        \/ /\ Cancelled
           /\ \E u \in Range(decoded(tgFile)) :
                 /\ u.ChatID = ret'.chat
                 /\ new = SelectSeq(old, LAMBDA r : normalizePhone(r.Phone)
                                                    # normalizePhone(u.Phone))

\* C26 as claimed: every step is a LogStep.
C26_LogAppendOrCancelOnly == [][LogStep]_vars

\* C26 as amended: every step is a LogStep, or a write of rsvps.json failed
\* midway in it and left the file undecodable.
C26_LogAppendOrCancelOrTornWrite ==
    [][LogStep \/ (readErr(rsvpFile') /\ ret'.op \in {"rsvp", "cancel"})]_vars

\* a cancellation for a chat id with a phone on record has written the log,
\* and entries of another phone key are still in it
C26_Witness ==
    /\ ret.op = "cancel"
    /\ ret.wrote
    /\ ~ret.err
    /\ decoded(rsvpFile) # <<>>
    /\ \E u \in Range(decoded(tgFile)) :
          /\ u.ChatID = ret.chat
          /\ \A r \in Range(decoded(rsvpFile)) :
                normalizePhone(r.Phone) # normalizePhone(u.Phone)

\* C27: every submission is counted by allow before its fields are looked
\* at: one made at quota is answered 429, any other adds now to the
\* timestamps admitted for its client address.
C27_AdmissionBeforeValidation ==
    [][Submitted
       => IF AtQuota
          THEN ret'.status = 429
          ELSE admitted'["ip1"] = Append(admitted["ip1"], clock)]_vars

\* C28: after cancelRSVPByChatID(c) returns nil, the log holds no entry
\* whose normalized phone is a non-empty phone key registered under c.
C28_CancelCoversEveryIdentity ==
    [][(Cancelled /\ ~ret'.err)
       => \A u \in Range(decoded(tgFile)) :
            (u.ChatID = ret'.chat /\ normalizePhone(u.Phone) # <<>>)
            => \A r \in Range(decoded(rsvpFile')) :
                  normalizePhone(r.Phone) # normalizePhone(u.Phone)]_vars

(***************************************************************************)
(* Timing of the reminder loop (SpecLoop).                                 *)
(***************************************************************************)
\* 09:00 local time of the trigger date
Trigger9 == YearDay(TriggerDate) * TicksPerDay + CheckHour * TicksPerHour

\* the next local 09:00 after t
next9(t) == CHOOSE u \in (t + 1)..(t + TicksPerDay) : u % TicksPerDay = CheckHour * TicksPerHour

\* C29: a loop started at least one minute before 09:00 of the trigger date
\* has taken the fire path at least once when its sleep ends after the
\* trigger date; and every sleep computed by sleepUntilNextCheck lasts at
\* least one minute and ends at the next local 09:00, or lasts one minute
\* when 09:00 is less than a minute away.
C29_TriggerDateNotMissed ==
    /\ (ret.op \in {"sleep", "pass"}
        /\ ret.start <= Trigger9 - Minute
        /\ dayOf(clock) > YearDay(TriggerDate)) => polls >= 1
    /\ ret.op = "pass"
        => /\ ret.d >= Minute
           /\ \/ ret.now + ret.d = next9(ret.now)
              \/ (next9(ret.now) - ret.now < Minute /\ ret.d = Minute)

\* the loop, started before 08:59 of the trigger date, took the fire path
\* less than a minute before 09:00 and slept for the floor of one minute
C29_Witness ==
    /\ ret.op = "pass"
    /\ ret.start <= Trigger9 - Minute
    /\ ret.fired
    /\ next9(ret.now) - ret.now < Minute
    /\ ret.d = Minute
    /\ polls >= 1
(***************************************************************************)
(* Mutexes and collaborator calls (SpecTasks, LiveTasks).                  *)
(***************************************************************************)
\* the mutexes task p holds
holds(p) == {l \in Mutexes : mu[l] = p}

\* task p is inside a call of a collaborator
inCall(p) == at(p).op = "return"

\* task p has finished: a handler has written its response
finished(p) == proc[p].pc > Len(proc[p].prog)

\* C21: no task is inside a call of the email or the Telegram collaborator
\* while it holds the mutex of rsvpStore, tgUserStore or reminderSentStore.
C21_NoCallUnderStoreLock ==
    \A p \in Tasks : inCall(p) => holds(p) \cap StoreMutexes = {}

\* the reminder loop is inside the call that sends an email, between its
\* use of two stores, while another task holds the mutex of a store
C21_Witness ==
    /\ inCall(Scheduler)
    /\ at(Scheduler).on = "email"
    /\ \E q \in Tasks \ {Scheduler} : holds(q) \cap StoreMutexes # {}

\* C22: a valid, admitted submission is eventually answered, whether or
\* not the collaborators ever return from the sends it triggers.
C22_SendsDoNotBlockResponse ==
    proc[Handler].admitted ~> finished(Handler)

\* task p is at a Lock
atLock(p) == at(p).op = "Lock"

\* C30: no task is at the Lock of a mutex while it holds another one, and
\* every task that is at a Lock gets past it.
C30_NoHoldAndWait ==
    /\ [](\A p \in Tasks : atLock(p) => holds(p) = {})
    /\ \A p \in Tasks : atLock(p) ~> ~atLock(p)

\* the cancellation, having released tgUserStore.mu, waits for rsvpStore.mu
\* which another task holds
C30_Witness ==
    /\ atLock(Canceller)
    /\ at(Canceller).on = "rsvpStore"
    /\ mu["rsvpStore"] \notin {0, Canceller}
    /\ proc[Canceller].pc > 1
====


